---- MODULE Spec2Model ----
(***************************************************************************)
(* Flight Routes System: the Airport and Route tables, the forms that      *)
(* validate submissions, and the views that serve the requests.            *)
(*                                                                         *)
(* A string is a sequence of characters; a character is one of the tokens  *)
(* of Chars ("sz" stands for U+00DF, whose upper case is the two letters   *)
(* "SS").  An optional value (None in the code) is a set with at most one  *)
(* element.                                                                *)
(*                                                                         *)
(* Not modelled: Route.created_at (written once by auto_now_add and read   *)
(* only by the ordering of the route list), the length limit of            *)
(* Airport.name, and the pages that only read (home, the two lists).       *)
(*                                                                         *)
(* Definitions that carry a suffix after the name of another definition    *)
(* (AirportsAtPosition_gt, Route_clean_noloop, ...) are faulty variants of *)
(* it: each states one slip the code could make, and is used by no         *)
(* specification.                                                          *)
(***************************************************************************)
EXTENDS Integers, Sequences, FiniteSets, TLC

VARIABLES airports, routes, nextId, resp, procs

vars == <<airports, routes, nextId, resp, procs>>

(***************************************************************************)
(* Bounds of the model.                                                    *)
(***************************************************************************)
MaxPosition == 3
MaxDistance == 2
MaxRouteId == 2
MaxN == 2

(***************************************************************************)
(* Characters and str methods.                                             *)
(***************************************************************************)
Chars == {"a", "b", "A", "B", "S", "sz", "1", " "}

IsAlphaChar(c) == c \in {"a", "b", "A", "B", "S", "sz"}

IsSpaceChar(c) == c = " "

\* The code point order of the characters the model uses.
CharRank(c) ==
    CASE c = " " -> 1 [] c = "1" -> 2 [] c = "A" -> 3 [] c = "B" -> 4
      [] c = "S" -> 5 [] c = "a" -> 6 [] c = "b" -> 7 [] OTHER -> 8

UpperChar(c) ==
    CASE c = "a" -> <<"A">>
      [] c = "b" -> <<"B">>
      [] c = "sz" -> <<"S", "S">>
      [] OTHER -> <<c>>

RECURSIVE str_upper(_)
str_upper(s) ==
    IF s = <<>> THEN <<>> ELSE UpperChar(Head(s)) \o str_upper(Tail(s))

RECURSIVE str_lstrip(_)
str_lstrip(s) ==
    IF s # <<>> /\ IsSpaceChar(Head(s)) THEN str_lstrip(Tail(s)) ELSE s

RECURSIVE str_rstrip(_)
str_rstrip(s) ==
    IF s # <<>> /\ IsSpaceChar(s[Len(s)])
    THEN str_rstrip(SubSeq(s, 1, Len(s) - 1))
    ELSE s

str_strip(s) == str_rstrip(str_lstrip(s))

str_isalpha(s) == s # <<>> /\ \A i \in 1..Len(s) : IsAlphaChar(s[i])

\* s < t in the lexicographic order of str.
RECURSIVE str_less(_, _)
str_less(s, t) ==
    IF t = <<>> THEN FALSE
    ELSE IF s = <<>> THEN TRUE
    ELSE IF Head(s) = Head(t) THEN str_less(Tail(s), Tail(t))
    ELSE CharRank(Head(s)) < CharRank(Head(t))

(***************************************************************************)
(* Airport: rows are [code, name, position]; code is the primary key.      *)
(* An instance under validation is [code, name, position] whose position   *)
(* is a set (empty: None); code and name default to the empty string.      *)
(***************************************************************************)

\* Variant: filter(position__gt=position)
AirportsAtPosition_gt(as, position) == {a \in as : a.position > position}

\* Airport.objects.filter(position=position)
AirportsAtPosition(as, position) == {a \in as : a.position = position}

\* Airport.objects.filter(code=code): the primary-key lookup
AirportsWithCode(as, code) == {a \in as : a.code = code}

\* Model.clean_fields: the field validators of code (max_length 3, not
\* blank), name (not blank) and position (not null).
Airport_clean_fields(inst) ==
    (IF inst.code = <<>> \/ Len(inst.code) > 3 THEN {"code"} ELSE {})
    \cup (IF inst.name = "" THEN {"name"} ELSE {})
    \cup (IF inst.position = {} THEN {"position"} ELSE {})

\* Airport.clean: upper-cases the code, then raises on the first failure.
Airport_clean(as, inst) ==
    LET code == IF inst.code # <<>> THEN str_upper(inst.code) ELSE inst.code
        taken == \E p \in inst.position :
                     \E a \in AirportsAtPosition(as, p) : a.code # code
    IN  [inst |-> [inst EXCEPT !.code = code],
         errors |-> IF code # <<>> /\ Len(code) # 3 THEN {"code"}
                    ELSE IF taken THEN {"position"}
                    ELSE {}]

\* Model.validate_unique of an instance being added (the application never
\* edits a row): code (primary key, unique) and position (unique).
Airport_validate_unique(as, inst, exclude) ==
    (IF "code" \notin exclude /\ AirportsWithCode(as, inst.code) # {}
     THEN {"code"} ELSE {})
    \cup (IF "position" \notin exclude
             /\ \E p \in inst.position : AirportsAtPosition(as, p) # {}
          THEN {"position"} ELSE {})

\* Model.full_clean: clean_fields, clean, then validate_unique over the
\* fields that have no error yet.
Airport_full_clean(as, inst, exclude, validateUnique) ==
    LET e1 == Airport_clean_fields(inst) \ exclude
        c == Airport_clean(as, inst)
        ex == exclude \cup e1 \cup c.errors
        e3 == IF validateUnique
              THEN Airport_validate_unique(as, c.inst, ex) ELSE {}
    IN  [inst |-> c.inst, errors |-> e1 \cup c.errors \cup e3]

\* Model.save_base: UPDATE the row with this primary key, INSERT when there
\* is none; the unique index on position raises IntegrityError.
Airport_db_save(as, inst) ==
    LET row == [code |-> inst.code, name |-> inst.name,
                position |-> CHOOSE p \in inst.position : TRUE]
        existing == AirportsWithCode(as, row.code)
        others == as \ existing
    IN  IF AirportsAtPosition(others, row.position) # {}
        THEN [ok |-> FALSE, error |-> "IntegrityError", airports |-> as]
        ELSE IF existing # {}
        THEN [ok |-> TRUE, error |-> "", airports |-> others \cup {row}]
        ELSE [ok |-> TRUE, error |-> "", airports |-> as \cup {row}]

\* Airport.save: full_clean, then the database write.
Airport_save(as, inst) ==
    LET fc == Airport_full_clean(as, inst, {}, TRUE)
    IN  IF fc.errors # {}
        THEN [ok |-> FALSE, error |-> "ValidationError", airports |-> as]
        ELSE Airport_db_save(as, fc.inst)

(***************************************************************************)
(* AirportForm.  Each field's cleaning yields a set: empty on a            *)
(* validation error, else the cleaned value.                               *)
(***************************************************************************)

\* Variant: clean_code without the isalpha test
AirportForm_clean_code_noalpha(value) ==
    LET code == str_strip(str_upper(value))
    IN  IF Len(code) # 3 THEN {} ELSE {code}

\* AirportForm.clean_code
AirportForm_clean_code(value) ==
    LET code == str_strip(str_upper(value))
    IN  IF Len(code) # 3 THEN {}
        ELSE IF ~str_isalpha(code) THEN {}
        ELSE {code}

\* The code field (CharField: strip, required, min_length 3, max_length 3),
\* then clean_code.
AirportForm_code(raw) ==
    LET value == str_strip(raw)
    IN  IF value = <<>> \/ Len(value) > 3 \/ Len(value) < 3 THEN {}
        ELSE AirportForm_clean_code(value)

\* The name field (CharField: required).
AirportForm_name(raw) == IF raw = "" THEN {} ELSE {raw}

\* The position field (IntegerField, min_value 1), then clean_position; the
\* new instance has no primary key, so exclude(pk=None) excludes no row.
AirportForm_position(as, raw) ==
    IF raw < 1 THEN {}
    ELSE IF AirportsAtPosition(as, raw) # {} THEN {}
    ELSE {raw}

\* AirportForm.is_valid: the fields, then ModelForm._post_clean (the
\* instance's full_clean without the failed fields, then validate_unique).
AirportForm_is_valid(as, data) ==
    LET code == AirportForm_code(data.code)
        name == AirportForm_name(data.name)
        position == AirportForm_position(as, data.position)
        failed == (IF code = {} THEN {"code"} ELSE {})
                  \cup (IF name = {} THEN {"name"} ELSE {})
                  \cup (IF position = {} THEN {"position"} ELSE {})
        inst == [code |-> IF code = {} THEN <<>> ELSE CHOOSE c \in code : TRUE,
                 name |-> IF name = {} THEN "" ELSE CHOOSE n \in name : TRUE,
                 position |-> position]
        fc == Airport_full_clean(as, inst, failed, FALSE)
        uq == Airport_validate_unique(as, fc.inst, failed \cup fc.errors)
    IN  [valid |-> failed = {} /\ fc.errors = {} /\ uq = {},
         errors |-> failed \cup fc.errors \cup uq,
         instance |-> fc.inst]

(***************************************************************************)
(* Route: rows are [id, source, destination, distance]; source and         *)
(* destination hold the airport's code.  An instance under validation has  *)
(* each field as a set (empty: None).                                      *)
(***************************************************************************)

\* Variant: filter(source=source, destination=source)
RoutesBetween_source(rs, source, destination) ==
    {r \in rs : r.source = source /\ r.destination = source}

\* Route.objects.filter(source=source, destination=destination), the lookup
\* of the unique_together index
RoutesBetween(rs, source, destination) ==
    {r \in rs : r.source = source /\ r.destination = destination}

\* airport.outgoing_routes and airport.incoming_routes (the related_names)
outgoing_routes(rs, code) == {r \in rs : r.source = code}

incoming_routes(rs, code) == {r \in rs : r.destination = code}

\* Model.clean_fields: a foreign key must be set and name an existing
\* airport; distance must be set.
Route_clean_fields(as, inst) ==
    (IF \A c \in inst.source : AirportsWithCode(as, c) = {}
     THEN {"source"} ELSE {})
    \cup (IF \A c \in inst.destination : AirportsWithCode(as, c) = {}
          THEN {"destination"} ELSE {})
    \cup (IF inst.distance = {} THEN {"distance"} ELSE {})

\* Variant: Route.clean without the comparison of source and destination
Route_clean_noloop(inst) ==
    IF inst.source = {} \/ inst.destination = {}
    THEN [crash |-> TRUE, errors |-> {}]
    ELSE IF inst.distance = {}
    THEN [crash |-> TRUE, errors |-> {}]
    ELSE IF \E d \in inst.distance : d <= 0
    THEN [crash |-> FALSE, errors |-> {"distance"}]
    ELSE [crash |-> FALSE, errors |-> {}]

\* Variant: Route.clean with "self.distance < 0"
Route_clean_negative(inst) ==
    IF inst.source = {} \/ inst.destination = {}
    THEN [crash |-> TRUE, errors |-> {}]
    ELSE IF inst.source = inst.destination
    THEN [crash |-> FALSE, errors |-> {"destination"}]
    ELSE IF inst.distance = {}
    THEN [crash |-> TRUE, errors |-> {}]
    ELSE IF \E d \in inst.distance : d < 0
    THEN [crash |-> FALSE, errors |-> {"distance"}]
    ELSE [crash |-> FALSE, errors |-> {}]

\* Route.clean.  Reading self.source or self.destination of an instance
\* whose foreign key is None raises RelatedObjectDoesNotExist, and None <= 0
\* raises TypeError: neither is a ValidationError (crash).
Route_clean(inst) ==
    IF inst.source = {} \/ inst.destination = {}
    THEN [crash |-> TRUE, errors |-> {}]
    ELSE IF inst.source = inst.destination
    THEN [crash |-> FALSE, errors |-> {"destination"}]
    ELSE IF inst.distance = {}
    THEN [crash |-> TRUE, errors |-> {}]
    ELSE IF \E d \in inst.distance : d <= 0
    THEN [crash |-> FALSE, errors |-> {"distance"}]
    ELSE [crash |-> FALSE, errors |-> {}]

\* Model.validate_unique: unique_together (source, destination), checked
\* when neither field is excluded.
Route_validate_unique(rs, inst, exclude) ==
    IF "source" \notin exclude /\ "destination" \notin exclude
       /\ \E s \in inst.source : \E d \in inst.destination :
              RoutesBetween(rs, s, d) # {}
    THEN {"__all__"} ELSE {}

\* Model.full_clean
Route_full_clean(as, rs, inst, exclude, validateUnique) ==
    LET e1 == Route_clean_fields(as, inst) \ exclude
        c == Route_clean(inst)
        ex == exclude \cup e1 \cup c.errors
        e3 == IF validateUnique
              THEN Route_validate_unique(rs, inst, ex) ELSE {}
    IN  [crash |-> c.crash, errors |-> e1 \cup c.errors \cup e3]

\* Variant: INSERT into a table whose foreign keys are not enforced
Route_db_insert_unenforced(as, rs, id, inst) ==
    LET row == [id |-> id,
                source |-> CHOOSE c \in inst.source : TRUE,
                destination |-> CHOOSE c \in inst.destination : TRUE,
                distance |-> CHOOSE d \in inst.distance : TRUE]
    IN  IF RoutesBetween(rs, row.source, row.destination) # {}
        THEN [ok |-> FALSE, error |-> "IntegrityError", errors |-> {},
              routes |-> rs]
        ELSE [ok |-> TRUE, error |-> "", errors |-> {},
              routes |-> rs \cup {row}]

\* Model.save_base of a new route: INSERT with the next id; the unique index
\* and the foreign keys raise IntegrityError.
Route_db_insert(as, rs, id, inst) ==
    LET row == [id |-> id,
                source |-> CHOOSE c \in inst.source : TRUE,
                destination |-> CHOOSE c \in inst.destination : TRUE,
                distance |-> CHOOSE d \in inst.distance : TRUE]
    IN  IF RoutesBetween(rs, row.source, row.destination) # {}
           \/ AirportsWithCode(as, row.source) = {}
           \/ AirportsWithCode(as, row.destination) = {}
        THEN [ok |-> FALSE, error |-> "IntegrityError", errors |-> {},
              routes |-> rs]
        ELSE [ok |-> TRUE, error |-> "", errors |-> {},
              routes |-> rs \cup {row}]

\* Route.save: full_clean, then the database write.
Route_save(as, rs, id, inst) ==
    LET fc == Route_full_clean(as, rs, inst, {}, TRUE)
    IN  IF fc.crash
        THEN [ok |-> FALSE, error |-> "Exception", errors |-> {},
              routes |-> rs]
        ELSE IF fc.errors # {}
        THEN [ok |-> FALSE, error |-> "ValidationError",
              errors |-> fc.errors, routes |-> rs]
        ELSE Route_db_insert(as, rs, id, inst)

(***************************************************************************)
(* AirportRouteForm                                                        *)
(***************************************************************************)

\* The source and destination fields (ModelChoiceField over all airports):
\* required, and the submitted key must be an airport's code.
AirportRouteForm_airport(as, raw) ==
    IF raw = <<>> THEN {}
    ELSE {a.code : a \in AirportsWithCode(as, raw)}

\* The distance field (IntegerField, min_value 1).
AirportRouteForm_distance(raw) == IF raw < 1 THEN {} ELSE {raw}

\* AirportRouteForm.clean: TRUE when it raises.  The form always builds a
\* new route, so "not self.instance.pk" holds.
AirportRouteForm_clean(rs, source, destination) ==
    \E s \in source : \E d \in destination :
        \/ s = d
        \/ RoutesBetween(rs, s, d) # {}

\* AirportRouteForm.is_valid: "valid", "invalid", or "crash" when the
\* instance's clean() raises something other than a ValidationError.
AirportRouteForm_is_valid(as, rs, data) ==
    LET source == AirportRouteForm_airport(as, data.source)
        destination == AirportRouteForm_airport(as, data.destination)
        distance == AirportRouteForm_distance(data.distance)
        failed == (IF source = {} THEN {"source"} ELSE {})
                  \cup (IF destination = {} THEN {"destination"} ELSE {})
                  \cup (IF distance = {} THEN {"distance"} ELSE {})
        formError == AirportRouteForm_clean(rs, source, destination)
        inst == [source |-> source, destination |-> destination,
                 distance |-> distance]
        fc == Route_full_clean(as, rs, inst, failed, FALSE)
        uq == Route_validate_unique(rs, inst, failed \cup fc.errors)
    IN  [status |-> IF fc.crash THEN "crash"
                    ELSE IF failed = {} /\ ~formError /\ fc.errors = {}
                            /\ uq = {}
                    THEN "valid" ELSE "invalid",
         errors |-> failed \cup (IF formError THEN {"__all__"} ELSE {})
                    \cup fc.errors \cup uq,
         instance |-> inst]

(***************************************************************************)
(* The queries of the models and views.                                    *)
(***************************************************************************)

Max(S) == CHOOSE x \in S : \A y \in S : y <= x

\* Variant: aggregate(Min('distance'))
aggregate_min_distance(rs) ==
    IF rs = {} THEN {}
    ELSE {CHOOSE d \in {r.distance : r \in rs} :
              \A r \in rs : d <= r.distance}

\* Route.objects.aggregate(Max('distance')): None when there is no route
aggregate_max_distance(rs) ==
    IF rs = {} THEN {} ELSE {Max({r.distance : r \in rs})}

\* Airport.objects.filter(Q(outgoing_routes__distance=d) |
\*                        Q(incoming_routes__distance=d)).distinct()
airports_with_distance(as, rs, d) ==
    {a \in as : \E r \in outgoing_routes(rs, a.code) \cup
                         incoming_routes(rs, a.code) : r.distance = d}

\* Variant: first() under ordering = ['-position']
Airport_first_descending(S) ==
    IF S = {} THEN {}
    ELSE {CHOOSE a \in S : \A b \in S : a.position >= b.position}

\* QuerySet.first() of an Airport queryset: Meta.ordering is ['position']
Airport_first(S) ==
    IF S = {} THEN {}
    ELSE {CHOOSE a \in S : \A b \in S : a.position <= b.position}

\* Route.get_longest_distance_airport
Route_get_longest_distance_airport(as, rs) ==
    LET max_distance == aggregate_max_distance(rs)
    IN  IF max_distance = {}
        THEN [airport |-> {}, max_distance |-> {}]
        ELSE [airport |-> Airport_first(airports_with_distance(
                              as, rs, CHOOSE d \in max_distance : TRUE)),
              max_distance |-> max_distance]

\* Route.get_shortest_route: order_by('distance').first().  The order among
\* routes of equal distance is the database's choice: the set of the routes
\* it may return (empty: None).
Route_get_shortest_route(rs) ==
    {r \in rs : \A q \in rs : r.distance <= q.distance}

\* Variant: order_by('destination__code', 'source__code')
RouteCodeLess_destination(q, r) ==
    \/ str_less(q.destination, r.destination)
    \/ q.destination = r.destination /\ str_less(q.source, r.source)

\* order_by('source__code', 'destination__code')
RouteCodeLess(q, r) ==
    \/ str_less(q.source, r.source)
    \/ q.source = r.source /\ str_less(q.destination, r.destination)

RECURSIVE order_by_codes(_)
order_by_codes(S) ==
    IF S = {} THEN <<>>
    ELSE LET m == CHOOSE r \in S : \A q \in S : ~RouteCodeLess(q, r)
         IN  <<m>> \o order_by_codes(S \ {m})

(***************************************************************************)
(* What the requests submit.                                               *)
(***************************************************************************)
CodeInputs ==
    { <<"a", "a", "a">>, <<"A", "A", "A">>, <<"b", "b", "b">>,
      <<"a", "B", "a">>, <<" ", "a", "a", "a", " ">>, <<"a", "1", "b">>,
      <<"a", " ", "b">>, <<"a", "b">>, <<"a", "b", "a", "b">>,
      <<"sz", "a", "b">>, <<"sz", "a">>, <<>> }

\* The codes the requests of the whole application draw from.
BasicCodeInputs ==
    { <<"a", "a", "a">>, <<"b", "b", "b">>, <<"a", "B", "a">>,
      <<"a", "1", "b">> }

NameInputs == {"", "N1"}

PositionInputs == 0..MaxPosition

\* The keys a request can name an airport by.
KeyInputs == { <<"A", "A", "A">>, <<"B", "B", "B">>, <<"A", "B", "A">> }

DistanceInputs == (-1)..MaxDistance

DirectionInputs == {"left", "right"}

Procs == {1, 2}

Idle == [pc |-> "idle"]

Init ==
    /\ airports = {}
    /\ routes = {}
    /\ nextId = 1
    /\ resp = [op |-> "none"]
    /\ procs = [p \in Procs |-> Idle]

(***************************************************************************)
(* The views, each request served in one step.                             *)
(***************************************************************************)

AddAirportView_post(codes) ==
    \E code \in codes, name \in NameInputs, position \in PositionInputs :
        LET data == [code |-> code, name |-> name, position |-> position]
            form == AirportForm_is_valid(airports, data)
            saved == Airport_save(airports, form.instance)
        IN  /\ airports' = IF form.valid THEN saved.airports ELSE airports
            /\ resp' = [op |-> "add_airport", code |-> code,
                        errors |-> form.errors,
                        status |-> IF ~form.valid THEN "invalid"
                                   ELSE IF saved.ok THEN "success"
                                   ELSE "error"]
            /\ UNCHANGED <<routes, nextId, procs>>

AddRouteView_post ==
    /\ nextId <= MaxRouteId
    /\ \E source \in KeyInputs \cup {<<>>}, destination \in KeyInputs,
          distance \in DistanceInputs :
        LET data == [source |-> source, destination |-> destination,
                     distance |-> distance]
            form == AirportRouteForm_is_valid(airports, routes, data)
            saved == Route_save(airports, routes, nextId, form.instance)
            ok == form.status = "valid" /\ saved.ok
        IN  /\ routes' = IF ok THEN saved.routes ELSE routes
            /\ nextId' = IF ok THEN nextId + 1 ELSE nextId
            /\ resp' = [op |-> "add_route",
                        errors |-> IF form.status = "crash" THEN {}
                                   ELSE form.errors,
                        status |-> IF form.status # "valid" THEN form.status
                                   ELSE IF saved.ok THEN "success"
                                   ELSE "error"]
            /\ UNCHANGED <<airports, procs>>

\* Model.delete of an airport: the collector gathers the routes that
\* reference it (on_delete=CASCADE) and deletes them with it.
Airport_delete(as, rs, code) ==
    [airports |-> as \ AirportsWithCode(as, code),
     routes |-> rs \ (outgoing_routes(rs, code) \cup incoming_routes(rs, code))]

\* Variant: total_routes without incoming_count
total_routes_outgoing(rs, code) == Cardinality(outgoing_routes(rs, code))

\* delete_airport: outgoing_count + incoming_count
total_routes(rs, code) ==
    Cardinality(outgoing_routes(rs, code))
    + Cardinality(incoming_routes(rs, code))

delete_airport ==
    \E code \in KeyInputs :
        LET found == AirportsWithCode(airports, code)
            deleted == Airport_delete(airports, routes, code)
            status == IF found = {} THEN "404"
                      ELSE IF total_routes(routes, code) > 0 THEN "refused"
                      ELSE "success"
        IN  /\ airports' = IF status = "success" THEN deleted.airports
                           ELSE airports
            /\ routes' = IF status = "success" THEN deleted.routes ELSE routes
            /\ resp' = [op |-> "delete_airport", code |-> code,
                        status |-> status]
            /\ UNCHANGED <<nextId, procs>>

delete_route ==
    \E pk \in 1..MaxRouteId :
        LET found == {r \in routes : r.id = pk}
        IN  /\ routes' = routes \ found
            /\ resp' = [op |-> "delete_route", pk |-> pk,
                        status |-> IF found = {} THEN "404" ELSE "success"]
            /\ UNCHANGED <<airports, nextId, procs>>

\* Variant: SearchForm whose n field has no min_value
SearchForm_is_valid_any_n(as, data) ==
    /\ AirportsWithCode(as, data.starting_airport) # {}
    /\ data.direction \in {"left", "right"}

\* SearchForm.is_valid
SearchForm_is_valid(as, data) ==
    /\ AirportsWithCode(as, data.starting_airport) # {}
    /\ data.direction \in {"left", "right"}
    /\ data.n >= 1

\* Variant: the first airport at or beyond the target position
NthNode_nearest(as, data) ==
    LET starting_airport ==
            CHOOSE a \in AirportsWithCode(as, data.starting_airport) : TRUE
        start_position == starting_airport.position
        target_position == IF data.direction = "left"
                           THEN start_position - data.n
                           ELSE start_position + data.n
        target_airport ==
            Airport_first({a \in as :
                IF data.direction = "left"
                THEN a.position <= target_position
                ELSE a.position >= target_position})
    IN  [target_airport |-> target_airport,
         target_position |-> target_position,
         error_message |-> target_airport = {}]

\* NthNodeSearchView.post on a valid form
NthNode(as, data) ==
    LET starting_airport ==
            CHOOSE a \in AirportsWithCode(as, data.starting_airport) : TRUE
        start_position == starting_airport.position
        target_position == IF data.direction = "left"
                           THEN start_position - data.n
                           ELSE start_position + data.n
        target_airport == Airport_first(AirportsAtPosition(as, target_position))
    IN  [target_airport |-> target_airport,
         target_position |-> target_position,
         error_message |-> target_airport = {}]

NthNodeSearchView_post ==
    \E start \in KeyInputs, direction \in DirectionInputs, n \in (-1)..MaxN :
        LET data == [starting_airport |-> start, direction |-> direction,
                     n |-> n]
            valid == SearchForm_is_valid(airports, data)
        IN  /\ resp' = [op |-> "nth_node", data |-> data, valid |-> valid,
                        target_position |->
                            IF valid
                            THEN {NthNode(airports, data).target_position}
                            ELSE {},
                        result |-> IF valid
                                   THEN NthNode(airports, data).target_airport
                                   ELSE {},
                        error_message |->
                            valid /\ NthNode(airports, data).error_message]
            /\ UNCHANGED <<airports, routes, nextId, procs>>

LongestDurationView_get ==
    LET found == Route_get_longest_distance_airport(airports, routes)
    IN  /\ resp' = [op |-> "longest", airport |-> found.airport,
                    max_distance |-> found.max_distance,
                    routes |-> {r \in routes :
                        /\ {r.distance} = found.max_distance
                        /\ \E a \in found.airport :
                               r.source = a.code \/ r.destination = a.code}]
        /\ UNCHANGED <<airports, routes, nextId, procs>>

ShortestRouteView_get ==
    /\ \/ /\ routes = {}
          /\ resp' = [op |-> "shortest", shortest_route |-> {},
                      shortest_distance |-> {}, shortest_routes |-> <<>>]
       \/ \E shortest_route \in Route_get_shortest_route(routes) :
              resp' = [op |-> "shortest",
                       shortest_route |-> {shortest_route},
                       shortest_distance |-> {shortest_route.distance},
                       shortest_routes |-> order_by_codes(
                           {r \in routes :
                                r.distance = shortest_route.distance})]
    /\ UNCHANGED <<airports, routes, nextId, procs>>

Next ==
    \/ AddAirportView_post(BasicCodeInputs)
    \/ AddRouteView_post
    \/ delete_airport
    \/ delete_route
    \/ LongestDurationView_get
    \/ ShortestRouteView_get

Spec == Init /\ [][Next]_vars

(***************************************************************************)
(* The model API the tests use: Airport.objects.create and                 *)
(* Route.objects.create build an instance and call its save().             *)
(***************************************************************************)

Airport_objects_create ==
    \E code \in KeyInputs \cup {<<"a", "a", "a">>},
       position \in 1..MaxPosition :
        LET inst == [code |-> code, name |-> "N1", position |-> {position}]
            saved == Airport_save(airports, inst)
        IN  /\ airports' = saved.airports
            /\ resp' = [op |-> "airport_create", code |-> code,
                        status |-> IF saved.ok THEN "success"
                                   ELSE saved.error]
            /\ UNCHANGED <<routes, nextId, procs>>

Route_objects_create ==
    /\ nextId <= MaxRouteId
    /\ \E source \in airports, destination \in airports,
          distance \in DistanceInputs :
        LET inst == [source |-> {source.code},
                     destination |-> {destination.code},
                     distance |-> {distance}]
            saved == Route_save(airports, routes, nextId, inst)
        IN  /\ routes' = saved.routes
            /\ nextId' = IF saved.ok THEN nextId + 1 ELSE nextId
            /\ resp' = [op |-> "route_create", source |-> source.code,
                        destination |-> destination.code,
                        errors |-> saved.errors,
                        status |-> IF saved.ok THEN "success"
                                   ELSE saved.error]
            /\ UNCHANGED <<airports, procs>>

NextModel ==
    \/ AddRouteView_post
    \/ delete_airport
    \/ delete_route
    \/ Airport_objects_create
    \/ Route_objects_create

SpecModel == Init /\ [][NextModel]_vars

\* The airports alone: registration over every code of CodeInputs,
\* deletion, and the search by position.
NextAirports ==
    \/ AddAirportView_post(CodeInputs)
    \/ delete_airport
    \/ NthNodeSearchView_post

SpecAirports == Init /\ [][NextAirports]_vars

(***************************************************************************)
(* Concurrent requests.  Each process serves one request at a time; a      *)
(* request takes one step per round trip to the database, and the steps    *)
(* of different requests interleave.  The reads of a request are not       *)
(* isolated from the writes other requests commit between them (READ       *)
(* COMMITTED, the isolation Django uses on its row-locking back ends); a   *)
(* write and the commit of its transaction are one step.                   *)
(***************************************************************************)
ConcCodeInputs == { <<"a", "a", "a">>, <<"b", "b", "b">> }

ConcKeyInputs == { <<"A", "A", "A">>, <<"B", "B", "B">> }

ConcNameInputs == {"N1"}

ConcPositionInputs == 1..2

ConcDistanceInputs == {1}

IsIdle(p) == procs[p].pc = "idle"

\* AddAirportView.post up to form.is_valid()
AddAirport_is_valid(p) ==
    /\ IsIdle(p)
    /\ \E code \in ConcCodeInputs, name \in ConcNameInputs,
          position \in ConcPositionInputs :
        LET data == [code |-> code, name |-> name, position |-> position]
            form == AirportForm_is_valid(airports, data)
        IN  IF form.valid
            THEN /\ procs' = [procs EXCEPT ![p] =
                        [pc |-> "airport_full_clean", code |-> code,
                         instance |-> form.instance]]
                 /\ UNCHANGED resp
            ELSE /\ resp' = [op |-> "add_airport", code |-> code,
                             errors |-> form.errors, status |-> "invalid"]
                 /\ UNCHANGED procs
    /\ UNCHANGED <<airports, routes, nextId>>

\* form.save(): Airport.save's full_clean
AddAirport_full_clean(p) ==
    /\ procs[p].pc = "airport_full_clean"
    /\ LET fc == Airport_full_clean(airports, procs[p].instance, {}, TRUE)
       IN  IF fc.errors = {}
           THEN /\ procs' = [procs EXCEPT ![p] =
                       [pc |-> "airport_db_save", code |-> procs[p].code,
                        instance |-> fc.inst]]
                /\ UNCHANGED resp
           ELSE /\ procs' = [procs EXCEPT ![p] = Idle]
                /\ resp' = [op |-> "add_airport", code |-> procs[p].code,
                            errors |-> {}, status |-> "error"]
    /\ UNCHANGED <<airports, routes, nextId>>

\* form.save(): Airport.save's super().save()
AddAirport_db_save(p) ==
    /\ procs[p].pc = "airport_db_save"
    /\ LET saved == Airport_db_save(airports, procs[p].instance)
       IN  /\ airports' = saved.airports
           /\ resp' = [op |-> "add_airport", code |-> procs[p].code,
                       errors |-> {},
                       status |-> IF saved.ok THEN "success" ELSE "error"]
    /\ procs' = [procs EXCEPT ![p] = Idle]
    /\ UNCHANGED <<routes, nextId>>

\* AddRouteView.post up to form.is_valid()
AddRoute_is_valid(p) ==
    /\ IsIdle(p)
    /\ \E source \in ConcKeyInputs, destination \in ConcKeyInputs,
          distance \in ConcDistanceInputs :
        LET data == [source |-> source, destination |-> destination,
                     distance |-> distance]
            form == AirportRouteForm_is_valid(airports, routes, data)
        IN  IF form.status = "valid"
            THEN /\ procs' = [procs EXCEPT ![p] =
                        [pc |-> "route_full_clean",
                         instance |-> form.instance]]
                 /\ UNCHANGED resp
            ELSE /\ resp' = [op |-> "add_route",
                             errors |-> IF form.status = "crash" THEN {}
                                        ELSE form.errors,
                             status |-> form.status]
                 /\ UNCHANGED procs
    /\ UNCHANGED <<airports, routes, nextId>>

\* form.save(): Route.save's full_clean
AddRoute_full_clean(p) ==
    /\ procs[p].pc = "route_full_clean"
    /\ LET fc == Route_full_clean(airports, routes, procs[p].instance,
                                  {}, TRUE)
       IN  IF ~fc.crash /\ fc.errors = {}
           THEN /\ procs' = [procs EXCEPT ![p] =
                       [pc |-> "route_db_insert",
                        instance |-> procs[p].instance]]
                /\ UNCHANGED resp
           ELSE /\ procs' = [procs EXCEPT ![p] = Idle]
                /\ resp' = [op |-> "add_route", errors |-> {},
                            status |-> "error"]
    /\ UNCHANGED <<airports, routes, nextId>>

\* form.save(): Route.save's super().save()
AddRoute_db_insert(p) ==
    /\ procs[p].pc = "route_db_insert"
    /\ nextId <= MaxRouteId
    /\ LET saved == Route_db_insert(airports, routes, nextId,
                                    procs[p].instance)
       IN  /\ routes' = saved.routes
           /\ nextId' = IF saved.ok THEN nextId + 1 ELSE nextId
           /\ resp' = [op |-> "add_route", errors |-> {},
                       status |-> IF saved.ok THEN "success" ELSE "error"]
    /\ procs' = [procs EXCEPT ![p] = Idle]
    /\ UNCHANGED airports

\* delete_airport up to the check of the associated routes
DeleteAirport_check(p) ==
    /\ IsIdle(p)
    /\ \E code \in ConcKeyInputs :
        LET status == IF AirportsWithCode(airports, code) = {} THEN "404"
                      ELSE IF total_routes(routes, code) > 0 THEN "refused"
                      ELSE "checked"
        IN  IF status = "checked"
            THEN /\ procs' = [procs EXCEPT ![p] =
                        [pc |-> "airport_delete", code |-> code]]
                 /\ UNCHANGED resp
            ELSE /\ resp' = [op |-> "delete_airport", code |-> code,
                             status |-> status]
                 /\ UNCHANGED procs
    /\ UNCHANGED <<airports, routes, nextId>>

\* delete_airport: airport.delete() in its transaction
DeleteAirport_delete(p) ==
    /\ procs[p].pc = "airport_delete"
    /\ LET deleted == Airport_delete(airports, routes, procs[p].code)
       IN  /\ airports' = deleted.airports
           /\ routes' = deleted.routes
    /\ resp' = [op |-> "delete_airport", code |-> procs[p].code,
                status |-> "success"]
    /\ procs' = [procs EXCEPT ![p] = Idle]
    /\ UNCHANGED nextId

\* delete_route: get_object_or_404
DeleteRoute_get(p) ==
    /\ IsIdle(p)
    /\ \E pk \in 1..MaxRouteId :
        IF \E r \in routes : r.id = pk
        THEN /\ procs' = [procs EXCEPT ![p] =
                    [pc |-> "route_delete", pk |-> pk]]
             /\ UNCHANGED resp
        ELSE /\ resp' = [op |-> "delete_route", pk |-> pk, status |-> "404"]
             /\ UNCHANGED procs
    /\ UNCHANGED <<airports, routes, nextId>>

\* delete_route: route.delete() in its transaction
DeleteRoute_delete(p) ==
    /\ procs[p].pc = "route_delete"
    /\ routes' = {r \in routes : r.id # procs[p].pk}
    /\ resp' = [op |-> "delete_route", pk |-> procs[p].pk,
                status |-> "success"]
    /\ procs' = [procs EXCEPT ![p] = Idle]
    /\ UNCHANGED <<airports, nextId>>

\* LongestDurationView.get_context_data: the aggregate query of
\* Route.get_longest_distance_airport (no transaction spans the queries)
LongestDuration_aggregate(p) ==
    /\ IsIdle(p)
    /\ LET max_distance == aggregate_max_distance(routes)
       IN  IF max_distance = {}
           THEN /\ resp' = [op |-> "longest", airport |-> {},
                            max_distance |-> {}, routes |-> {}]
                /\ UNCHANGED procs
           ELSE /\ procs' = [procs EXCEPT ![p] =
                       [pc |-> "longest_first",
                        max_distance |-> max_distance]]
                /\ UNCHANGED resp
    /\ UNCHANGED <<airports, routes, nextId>>

\* Route.get_longest_distance_airport: airports_with_max_distance.first()
LongestDuration_first(p) ==
    /\ procs[p].pc = "longest_first"
    /\ procs' = [procs EXCEPT ![p] =
           [pc |-> "longest_routes",
            airport |-> Airport_first(airports_with_distance(
                            airports, routes,
                            CHOOSE d \in procs[p].max_distance : TRUE)),
            max_distance |-> procs[p].max_distance]]
    /\ UNCHANGED <<airports, routes, nextId, resp>>

\* LongestDurationView.get_context_data: the routes of the airport found,
\* read when the page is rendered
LongestDuration_routes(p) ==
    /\ procs[p].pc = "longest_routes"
    /\ resp' = [op |-> "longest", airport |-> procs[p].airport,
                max_distance |-> procs[p].max_distance,
                routes |-> {r \in routes :
                    /\ {r.distance} = procs[p].max_distance
                    /\ \E a \in procs[p].airport :
                           r.source = a.code \/ r.destination = a.code}]
    /\ procs' = [procs EXCEPT ![p] = Idle]
    /\ UNCHANGED <<airports, routes, nextId>>

NextConc ==
    \E p \in Procs :
        \/ AddAirport_is_valid(p)
        \/ AddAirport_full_clean(p)
        \/ AddAirport_db_save(p)
        \/ AddRoute_is_valid(p)
        \/ AddRoute_full_clean(p)
        \/ AddRoute_db_insert(p)
        \/ DeleteAirport_check(p)
        \/ DeleteAirport_delete(p)
        \/ DeleteRoute_get(p)
        \/ DeleteRoute_delete(p)
        \/ LongestDuration_aggregate(p)
        \/ LongestDuration_first(p)
        \/ LongestDuration_routes(p)

SpecConc == Init /\ [][NextConc]_vars

(***************************************************************************)
(* Properties.                                                             *)
(***************************************************************************)

\* The routes that have the airport with this code as source or destination.
RoutesTouching(rs, code) ==
    {r \in rs : r.source = code \/ r.destination = code}

\* C1: in every state reached by add-airport, add-route, delete-airport and
\* delete-route requests, no two airports have the same position.
C1_PositionUnique ==
    \A a, b \in airports : a.position = b.position => a = b

\* C1: two airports are stored and an add-airport submission was rejected
\* for its position alone.
C1_Witness ==
    /\ Cardinality(airports) >= 2
    /\ resp.op = "add_airport"
    /\ resp.status = "invalid"
    /\ resp.errors = {"position"}

\* C2: no route has its source equal to its destination, whether it comes
\* from an add-route submission or from the model's own validation.
C2_NoSelfLoop ==
    \A r \in routes : r.source # r.destination

\* C2: a route is stored and an add-route submission with source equal to
\* destination was rejected (by the form's clean and by Route.clean).
C2_Witness ==
    /\ routes # {}
    /\ resp.op = "add_route"
    /\ resp.status = "invalid"
    /\ {"__all__", "destination"} \subseteq resp.errors

\* C3: there is at most one route for each ordered (source, destination)
\* pair, whatever distances were submitted for it.
C3_UniquePair ==
    \A r, q \in routes :
        r.source = q.source /\ r.destination = q.destination => r = q

\* C3: a route is stored and an add-route submission was rejected only for
\* its pair having a route already.
C3_Witness ==
    /\ routes # {}
    /\ resp.op = "add_route"
    /\ resp.status = "invalid"
    /\ resp.errors = {"__all__"}

\* C4: a delete-airport request for an existing airport that some route has
\* as source or destination is refused and changes no airport and no route;
\* for an existing airport without routes it succeeds, removes exactly that
\* airport and changes no route.
C4_DeleteAirport ==
    [][resp'.op = "delete_airport" =>
        LET found == {a \in airports : a.code = resp'.code}
        IN  found # {} =>
                IF RoutesTouching(routes, resp'.code) # {}
                THEN /\ resp'.status = "refused"
                     /\ airports' = airports
                     /\ routes' = routes
                ELSE /\ resp'.status = "success"
                     /\ airports' = airports \ found
                     /\ routes' = routes]_vars

\* C4: a delete-airport request was refused while another airport and a
\* route exist.
C4_Witness ==
    /\ resp.op = "delete_airport"
    /\ resp.status = "refused"
    /\ RoutesTouching(routes, resp.code) # {}
    /\ Cardinality(airports) >= 2

\* C5: in every interleaving of delete-airport, add-route and delete-route
\* requests, no step removes an airport that some route has as source or
\* destination (so deleting an airport never removes a route).
C5_NoDeleteWhileReferenced ==
    [][\A a \in airports :
        (\A b \in airports' : b.code # a.code)
            => RoutesTouching(routes, a.code) = {}]_vars

\* C6: a valid search from the airport at position P, n >= 1 places to the
\* right (left), returns exactly the airport at position P+n (P-n) when
\* there is one, and otherwise no airport and the not-found message.
C6_NthNode ==
    resp.op = "nth_node" /\ resp.valid =>
        LET start == CHOOSE a \in airports :
                         a.code = resp.data.starting_airport
            target == IF resp.data.direction = "right"
                      THEN start.position + resp.data.n
                      ELSE start.position - resp.data.n
        IN  /\ resp.data.n >= 1
            /\ resp.result = {a \in airports : a.position = target}
            /\ resp.error_message <=> resp.result = {}

\* C6: a search reported not-found although an airport lies further in the
\* direction searched.
C6_Witness ==
    /\ resp.op = "nth_node"
    /\ resp.valid
    /\ resp.error_message
    /\ resp.data.direction = "right"
    /\ \E s, a \in airports :
           /\ s.code = resp.data.starting_airport
           /\ a.position > s.position + resp.data.n

\* C7: when a route exists, the longest-route query returns the maximum
\* distance over all routes and an airport that is source or destination of
\* a route of that distance.
C7_Longest ==
    resp.op = "longest" /\ routes # {} =>
        /\ resp.airport # {}
        /\ \E m \in resp.max_distance :
               /\ \A r \in routes : r.distance <= m
               /\ \A a \in resp.airport :
                      /\ a \in airports
                      /\ \E r \in RoutesTouching(routes, a.code) :
                             r.distance = m

\* C7: the query answered while two routes of different distances exist
\* and some airport touches no route of the greater distance.
C7_Witness ==
    /\ resp.op = "longest"
    /\ \E r, q \in routes : r.distance < q.distance
    /\ \E a \in airports :
           \A r \in RoutesTouching(routes, a.code) :
               \E q \in routes : r.distance < q.distance

\* C8: when a route exists, the shortest-route query returns a route of
\* minimum distance and lists exactly the routes of that distance, ordered
\* by source code and then destination code; when none exists it returns no
\* route and an empty list.
C8_Shortest ==
    resp.op = "shortest" =>
        IF routes = {}
        THEN resp.shortest_route = {} /\ resp.shortest_routes = <<>>
        ELSE LET shortest == {r \in routes :
                                 \A q \in routes : r.distance <= q.distance}
                 list == resp.shortest_routes
             IN  /\ resp.shortest_route # {}
                 /\ resp.shortest_route \subseteq shortest
                 /\ {list[i] : i \in 1..Len(list)} = shortest
                 /\ Len(list) = Cardinality(shortest)
                 /\ \A i, j \in 1..Len(list) :
                        i < j =>
                            \/ str_less(list[i].source, list[j].source)
                            \/ /\ list[i].source = list[j].source
                               /\ str_less(list[i].destination,
                                           list[j].destination)

\* C8: the query listed two routes of the same, minimum distance.
C8_Witness ==
    /\ resp.op = "shortest"
    /\ Len(resp.shortest_routes) >= 2

\* C9: every route has a distance greater than zero: creating one with a
\* zero or negative distance is rejected.
C9_PositiveDistance ==
    \A r \in routes : r.distance > 0

\* C9: the creation of a route was rejected by validation for its distance
\* alone.
C9_Witness ==
    /\ resp.op = "route_create"
    /\ resp.status = "ValidationError"
    /\ resp.errors = {"distance"}

\* The upper-case letters among Chars, and the upper-case letter of a
\* letter that has one.
UpperLetters == {"A", "B", "S"}

UpperLetterOf(c) ==
    CASE c = "a" -> "A" [] c = "b" -> "B" [] OTHER -> c

\* C10: every stored airport code is exactly 3 upper-case letters, and the
\* airport a successful add-airport submission stores has the submitted
\* code (surrounding blanks aside), letter by letter, in upper case.
C10_CodeUpper ==
    /\ \A a \in airports :
           /\ Len(a.code) = 3
           /\ \A i \in 1..3 : a.code[i] \in UpperLetters
    /\ resp.op = "add_airport" /\ resp.status = "success" =>
           LET raw == str_strip(resp.code)
           IN  \E a \in airports :
                   /\ Len(raw) = Len(a.code)
                   /\ \A i \in 1..Len(raw) : UpperLetterOf(raw[i]) = a.code[i]

\* C10: a code submitted in mixed case was stored.
C10_Witness ==
    /\ resp.op = "add_airport"
    /\ resp.status = "success"
    /\ resp.code = <<"a", "B", "a">>
    /\ \E a \in airports : a.code = <<"A", "B", "A">>

\* C11: creating through the model API an airport whose code is already
\* stored, or a route whose (source, destination) pair is already stored,
\* fails with IntegrityError and stores nothing.
C11_DuplicateCreateIntegrityError ==
    [][/\ (resp'.op = "airport_create"
           /\ AirportsWithCode(airports, resp'.code) # {})
          => (resp'.status = "IntegrityError" /\ airports' = airports)
       /\ (resp'.op = "route_create"
           /\ RoutesBetween(routes, resp'.source, resp'.destination) # {})
          => (resp'.status = "IntegrityError" /\ routes' = routes)]_vars

\* C12: an add-airport or add-route submission that does not succeed leaves
\* the airports and the routes as they were and ends with an error message
\* (the form's errors or the caught exception), never with an unhandled
\* exception.
C12_ErrorHandled ==
    [][(resp'.op \in {"add_airport", "add_route"}
           /\ resp'.status # "success")
          => /\ airports' = airports
             /\ routes' = routes
             /\ resp'.status \in {"invalid", "error"}]_vars

\* C13: no step of any request changes a stored airport or a stored route
\* in place: an airport that is stored before and after a step has the same
\* name and position, and a route that is stored before and after a step has
\* the same source, destination and distance.
C13_NeverUpdatedInPlace ==
    [][/\ \A a \in airports : \A b \in airports' :
              b.code = a.code => b = a
       /\ \A r \in routes : \A q \in routes' :
              q.id = r.id => q = r]_vars

\* C14: an Nth-node search submitted with n < 1 is rejected by the form: no
\* target position is computed, and the response carries neither a result
\* airport nor the not-found message.
C14_InvalidNRejected ==
    (resp.op = "nth_node" /\ resp.data.n < 1) =>
        /\ ~resp.valid
        /\ resp.target_position = {}
        /\ resp.result = {}
        /\ ~resp.error_message

\* C14: a search with n = -1 to the right was answered while the starting
\* airport exists and an airport stands one position to its left, where
\* start + n points.
C14_Witness ==
    /\ resp.op = "nth_node"
    /\ resp.data.n = -1
    /\ resp.data.direction = "right"
    /\ \E s, a \in airports :
           /\ s.code = resp.data.starting_airport
           /\ a.position = s.position + resp.data.n

\* C15: when an add-airport request that passed form validation completes
\* while an airport with its code or its position is already stored (the
\* concurrent request that conflicts with it was persisted first), it ends
\* with an error message and changes no airport; and when an add-route
\* request that passed form validation completes while a route for its
\* (source, destination) pair is already stored, it ends with an error
\* message and changes no route.
C15_ConflictOnePersisted ==
    [][\A p \in Procs :
        /\ (/\ procs[p].pc \in {"airport_full_clean", "airport_db_save"}
            /\ procs'[p].pc = "idle"
            /\ \E a \in airports :
                   \/ a.code = procs[p].instance.code
                   \/ a.position \in procs[p].instance.position)
           => (resp'.status = "error" /\ airports' = airports)
        /\ (/\ procs[p].pc \in {"route_full_clean", "route_db_insert"}
            /\ procs'[p].pc = "idle"
            /\ \E r \in routes :
                   /\ r.source \in procs[p].instance.source
                   /\ r.destination \in procs[p].instance.destination)
           => (resp'.status = "error" /\ routes' = routes)]_vars

\* C16: the longest-distance query answers with both an airport and a
\* distance or with neither, also when delete-route requests interleave with
\* its queries: never a distance without an airport.
C16_LongestBothOrNeither ==
    resp.op = "longest" =>
        (resp.airport = {} <=> resp.max_distance = {})

\* C17: in every state reached by any interleaving of add-airport,
\* add-route, delete-airport and delete-route requests, the source and the
\* destination of every stored route are stored airports.
C17_ReferentialIntegrity ==
    \A r \in routes :
        /\ AirportsWithCode(airports, r.source) # {}
        /\ AirportsWithCode(airports, r.destination) # {}

\* C17: an add-route request that had passed form validation failed while
\* no route is stored and one of its two airports is gone: the airport was
\* deleted while the request was under way.
C17_Witness ==
    /\ resp.op = "add_route"
    /\ resp.status = "error"
    /\ routes = {}
    /\ Cardinality(airports) = 1

\* C18: when a route exists, the longest-distance query returns, among the
\* airports that are source or destination of a route of the maximum
\* distance, the one with the smallest position; the stored data fix the
\* airport returned, so two calls on the same data return the same airport.
C18_LongestTieByPosition ==
    (resp.op = "longest" /\ routes # {}) =>
        LET tied == {b \in airports :
                        \E r \in RoutesTouching(routes, b.code) :
                            \A q \in routes : q.distance <= r.distance}
        IN  /\ Cardinality(resp.airport) = 1
            /\ \A a \in resp.airport :
                   /\ a \in tied
                   /\ \A b \in tied : a.position < b.position \/ a = b

\* C18: the query answered while two routes of the maximum distance exist
\* and an airport of one of them has a smaller code than the airport
\* returned.
C18_Witness ==
    /\ resp.op = "longest"
    /\ \E r, q \in routes :
           /\ r # q
           /\ r.distance = q.distance
           /\ \A t \in routes : t.distance <= r.distance
    /\ \E a \in resp.airport : \E b \in airports :
           /\ str_less(b.code, a.code)
           /\ \E r \in RoutesTouching(routes, b.code) :
                  \A q \in routes : q.distance <= r.distance

====
